---- MODULE Spec2Model ----
(***************************************************************************)
(* MTG-Link (flegeai/MTG-Link): the per-gap pipeline `gapfilling` of       *)
(* src/mtglink.py with the helpers of src/helpers.py.                      *)
(*                                                                         *)
(*   Spec          the search controller of one gap (the k / abundance     *)
(*                 loops, grading, edge selection, the fallback to the     *)
(*                 gap line) and the dispatcher's merge of its result.     *)
(*   SpecScenario  the same, for the end-to-end scenario of the            *)
(*                 specification.                                          *)
(*   SpecGrade     the grading of one insertion record from the two        *)
(*                 alignment statistics tables.                            *)
(*   SpecPool      the worker pool: the tasks of several gaps up to the    *)
(*                 end of the evidence collection (chunk clamping,         *)
(*                 barcode extraction, frequency filter).                  *)
(***************************************************************************)
EXTENDS Integers, Sequences, FiniteSets, TLC

(***************************************************************************)
(* Bounds of the model.                                                    *)
(***************************************************************************)
\* largest number of insertion records in one insertions.fasta
MaxBatch == 2

\* largest number of rows in an alignment statistics file
MaxRows == 2

\* number of worker processes of the pool
NWorkers == 2

\* largest number of lines BamExtractor prints for one region
MaxLines == 1

(***************************************************************************)
(* Program constants.                                                      *)
(***************************************************************************)
\* the value of args.extension when '-ext' is not given (None)
None == -1

\* the k-mer size lists (-k) the runs are checked for: the order is the caller's
KmerLists == { <<51, 41>>, <<41, 51>> }

\* the abundance threshold lists (-a) the runs are checked for
AbundLists == { <<3, 2>>, <<2, 3>> }

\* the values of -ext the runs are checked for
Extensions == { None, 60 }

\* lengths of the inserted sequences the assembler may return
SeqLens == { 100, 620 }

\* the G line of the gap, saved in tmp_gap_file at task start
GapLine ==
  [kind |-> "gap", k |-> 0, a |-> 0, bkpt |-> 0, sol |-> 0, len |-> 0,
   quality |-> << >>]

(***************************************************************************)
(* Grades: the letters of the "Quality" column, ordered as Python orders   *)
(* one-letter strings.                                                     *)
(***************************************************************************)
Grades == { "A", "B", "C", "D" }

Rank(g) == CASE g = "A" -> 1 [] g = "B" -> 2 [] g = "C" -> 3 [] g = "D" -> 4

\* Python's min() of a non-empty list of one-letter strings
PyMin(qs) ==
  CHOOSE g \in { qs[i] : i \in DOMAIN qs } :
    \A h \in { qs[i] : i \in DOMAIN qs } : Rank(g) <= Rank(h)

\* `if quality == []: quality.append('D')`
DefaultD(qs) == IF qs = << >> THEN << "D" >> ELSE qs

\* a slip in the character class: [BC]{2} for [AB]{2}
MatchRefShifted(q) == Len(q) = 2 /\ q[1] \in {"B", "C"} /\ q[2] \in {"B", "C"}

\* re.match('^.*Quality [AB]{2}$', description), on the composed grade
MatchRef(q) == Len(q) = 2 /\ q[1] \in {"A", "B"} /\ q[2] \in {"A", "B"}

\* re.match('^.*Quality A[AB]{2}$', d) or re.match('^.*Quality BA[AB]$', d)
MatchContig(q) ==
  /\ Len(q) = 3
  /\ \/ q[1] = "A" /\ q[2] \in {"A", "B"} /\ q[3] \in {"A", "B"}
     \/ q[1] = "B" /\ q[2] = "A" /\ q[3] \in {"A", "B"}

\* the acceptance grammar of the run's mode
Match(mode, q) == IF mode THEN MatchRef(q) ELSE MatchContig(q)

\* quality_gapfilled_seq: the composed grade of one record from the lists of
\* grades of its matching rows (reference mode: quality_ref, quality_revcomp;
\* contig mode: quality_ext_left, quality_ext_right, quality_revcomp)
ComposeQuality(mode, st) ==
  IF mode
    THEN << PyMin(DefaultD(st.ref)), PyMin(DefaultD(st.revcomp)) >>
    ELSE << PyMin(DefaultD(st.left)), PyMin(DefaultD(st.right)),
            PyMin(DefaultD(st.revcomp)) >>

(***************************************************************************)
(* State.                                                                  *)
(***************************************************************************)
VARIABLES
  \* ---- the run's configuration (argparse) ----
  kmer,                \* args.kmer
  abundance_threshold, \* args.abundance_threshold
  force,               \* args.force
  refMode,             \* TRUE: args.refDir is given; FALSE: args.contigs is
  extension,           \* args.extension (None when '-ext' is absent)
  \* ---- gapfilling(current_gap): the search of one gap ----
  pc,                  \* the position in gapfilling / the dispatcher
  ki,                  \* position of `for k in args.kmer`
  ai,                  \* position of `for a in args.abundance_threshold`
  k,                   \* loop variable k (0: not bound yet)
  a,                   \* loop variable a (0: not bound yet)
  solution,            \* the flag `solution`: "unbound", "True", "False"
  solutions,           \* the list `solutions`
  output_for_gfa,      \* the list `output_for_gfa`
  bkpt_k,              \* the k's whose breakpoint file has been written
  \* ---- the dispatcher's side of this gap ----
  out_gfa,             \* lines added to the output GFA for this gap
  \* ---- history (not program state) ----
  attempts,            \* the (k, a) of every mtg_fill call, in order
  procRuns,            \* executions of the MindTheGap command
  lastOutcome,         \* what the last call of the assembler left behind
  accepted,            \* the acceptances so far: << n, s >> when the batch of
                       \* attempts[n] held a good candidate on strand s
  \* ---- the grading of one record (lines 298-392) ----
  reader_ref_stats,     \* rows of xxx.ref_qry.alignment.stats
  reader_revcomp_stats, \* rows of xxx.qry_qry.alignment.stats
  record,               \* the insertion record being graded
  quality_gapfilled_seq,\* its composed grade (<< >>: not graded yet)
  worsened,             \* history: the composed grade once one constituent
                        \* grade is replaced by a worse one
  grade_pc,             \* "idle", "read", "graded", "row", "letter"
  \* ---- the run: the gaps and the pool of worker processes ----
  gaps,                 \* the G lines of the input GFA, in file order
  chunk_arg,            \* the value given to '-c'
  freq,                 \* args.freq
  next_gap,             \* index in gaps of the next task to hand out
  wpc,                  \* per worker: position of its task in gapfilling
  wgap,                 \* per worker: index in gaps of its task (0: none)
  wchunk,               \* per worker process: its args.chunk
  barcodes_occ,         \* per worker: the dict barcodes_occ of its task
                        \* (a count of 0: the barcode is no key)
  scratch_name,         \* the inode 'bam-extractor-stdout.txt' names in the
                        \* working directory (0: no such file)
  inode,                \* per inode: the lines of the file
  fd,                   \* per worker: the inode its open file f is on
  results,              \* per gap: what its task returned
  emitted,              \* history, per worker: how often BamExtractor
                        \* printed each barcode for the two regions of
                        \* its task
  left_region,          \* per worker: left_scaffold.chunk(args.chunk)
  right_region,         \* per worker: right_scaffold.chunk(args.chunk)
  outDir,               \* the files of the tasks in the working directory
  \* ---- the breakpoint file of one k (lines 216-232) ----
  left_scaffold,        \* the Scaffold of gap.left: its orient and len
  right_scaffold,       \* the Scaffold of gap.right
  bkpt,                 \* the records written to bkpt_file: header, sequence
  max_length_arg,       \* args.max_length
  gap_length,           \* gap.length
  max_length,           \* the local max_length passed to mtg_fill
  \* ---- the dispatcher (lines 492-559) ----
  line,                 \* args.line (None when '-line' is absent)
  dpc,                  \* the dispatcher's position: "idle", "init", "map",
                        \* "merge", "end", "raised"
  union_sum,            \* the rows written to <gfa>.union.sum: gap indices
  out_gfa_file,         \* the lines added to the output GFA for the gaps
  completed,            \* history: the gaps in the order their tasks returned
  fatal,                \* history: parser.error was called in a task
  gfa_lines,            \* the kinds of the lines of the input GFA other than
                        \* its G lines
  out_gfa_lines         \* the kinds of the lines the dispatcher wrote to the
                        \* output GFA (lines 500-517)

cfgVars    == << kmer, abundance_threshold, force, refMode, extension >>
searchVars == << pc, ki, ai, k, a, solution, solutions, output_for_gfa, bkpt_k >>
histVars   == << attempts, procRuns, lastOutcome, accepted >>
gradeVars  == << reader_ref_stats, reader_revcomp_stats, record,
                 quality_gapfilled_seq, worsened, grade_pc >>
poolVars   == << gaps, chunk_arg, freq, next_gap, wpc, wgap, wchunk,
                 barcodes_occ, scratch_name, inode, fd, results, emitted,
                 left_region, right_region, outDir >>
bkptVars   == << left_scaffold, right_scaffold, bkpt, max_length_arg,
                 gap_length, max_length >>
dispQuiet  == << line, dpc, union_sum, out_gfa_file, fatal, gfa_lines,
                 out_gfa_lines >>
dispVars   == << dispQuiet, completed >>
vars       == << cfgVars, searchVars, out_gfa, histVars, gradeVars,
                 poolVars, bkptVars, dispVars >>

(***************************************************************************)
(* Insertion records.                                                      *)
(***************************************************************************)
\* what the alignment statistics hold for one record: the lists of grades
\* of its matching rows
StatsCases ==
  { [ref |-> <<"A">>, left |-> <<"A">>, right |-> <<"A">>,
     revcomp |-> <<"A">>],
    [ref |-> <<"C", "B">>, left |-> <<"C", "B">>, right |-> <<"B", "B">>,
     revcomp |-> <<"A">>],
    [ref |-> << >>, left |-> << >>, right |-> <<"A">>,
     revcomp |-> << >>] }

\* a record of insertions.fasta: the breakpoint it fills (bkpt1: forward,
\* bkpt2: reverse), the length of its sequence, its alignment statistics
Candidates == [bkpt : {1, 2}, len : SeqLens, stats : StatsCases]

\* the contents an insertions.fasta of size > 0 may have
Batches == UNION { [1..n -> Candidates] : n \in 1..MaxBatch }

\* str(record.id).split('_')[0][-1]: the last character of "bkpt1" / "bkpt2"
Strand(rec) == rec.bkpt

\* variable 'ext': the size of the extension of the gap
Ext(kk) == IF extension = None THEN kk ELSE extension

\* min(args.kmer), min(args.abundance_threshold)
MinOf(s) == CHOOSE m \in { s[i] : i \in DOMAIN s } :
              \A j \in DOMAIN s : m <= s[j]

\* get_output_for_gfa(record, ext, k, ...): the edge record of a candidate,
\* with the length of record.seq and the grade of record.description
get_output_for_gfa(rec, i, kk, aa) ==
  [kind |-> "edge", k |-> kk, a |-> aa, bkpt |-> rec.bkpt, sol |-> i,
   len |-> rec.len, quality |-> ComposeQuality(refMode, rec.stats)]

\* a test of the grade alone
GoodAnyLength(rec, kk) ==
  Match(refMode, ComposeQuality(refMode, rec.stats))

\* the candidate is good: long enough and of a grade matching the grammar
Good(rec, kk) ==
  rec.len > 2 * Ext(kk) /\ Match(refMode, ComposeQuality(refMode, rec.stats))

\* the value of `solution` after the grading loop over the records: each
\* record overwrites it, so the last record decides
GradedSolution(batch) ==
  IF Match(refMode, ComposeQuality(refMode, batch[Len(batch)].stats))
    THEN "True" ELSE "False"

\* output_for_gfa after the loop `for record in SeqIO.parse(query, "fasta")`
RECURSIVE EdgesOf(_, _, _, _)
EdgesOf(batch, n, kk, aa) ==
  IF n = 0 THEN << >>
  ELSE IF Good(batch[n], kk)
         THEN Append(EdgesOf(batch, n - 1, kk, aa),
                     get_output_for_gfa(batch[n], n, kk, aa))
         ELSE EdgesOf(batch, n - 1, kk, aa)

\* `solutions` after that loop: it is emptied at the top of every iteration
SolutionsOf(batch, kk) ==
  LET last == batch[Len(batch)]
  IN  << << IF Good(last, kk) THEN "True" ELSE "False", Strand(last) >> >>

\* ("True_1" and "True_2" in solutions): `and` yields its right operand
BothStrands(sols) == \E i \in DOMAIN sols : sols[i] = << "True", 2 >>

\* history: the strands on which the batch of attempt n holds a good
\* candidate
GoodOf(batch, kk, n) ==
  { << n, Strand(batch[i]) >> :
      i \in { j \in DOMAIN batch : Good(batch[j], kk) } }

(***************************************************************************)
(* The run: gaps, scaffolds and the worker pool.                           *)
(***************************************************************************)
Workers == 1..NWorkers

\* the barcodes of the reads, and the lines BamExtractor prints for them:
\* "<barcode>-1", held as the fields around the '-'
Barcodes == { "AAC", "GGT" }
RawLines == { << b, "1" >> : b \in Barcodes }

\* what one run of BamExtractor may print
ExtractorOutputs == UNION { [1..n -> RawLines] : n \in 0..MaxLines }

\* the scaffolds (S lines: name, orientation in the gap, slen)
Scaffold(name, orient, slen) == [name |-> name, orient |-> orient, len |-> slen]

\* the gaps an input GFA is made of
Gap1 == [left  |-> Scaffold("ctg1", "+", 3), right |-> Scaffold("ctg2", "+", 6)]
Gap2 == [left  |-> Scaffold("ctg2", "+", 6), right |-> Scaffold("ctg3", "-", 8)]
Gap3 == [left  |-> Scaffold("ctg2", "+", 6), right |-> Scaffold("ctg3", "+", 8)]

GapLists ==
  { << g, h >> : g \in {Gap1, Gap2, Gap3}, h \in {Gap1, Gap2, Gap3} }
    \ { << g, g >> : g \in {Gap1, Gap2, Gap3} }

\* the values of -c and -f the runs are checked for
ChunkSizes == { 5, 9 }
Freqs == { 1, 2 }

\* min(left_scaffold.len, right_scaffold.len)
Min2(x, y) == IF x <= y THEN x ELSE y

\* lines 139-140: args.chunk after the test of the two scaffold lengths
ClampChunk(c, llen, rlen) ==
  IF c > llen \/ c > rlen THEN Min2(llen, rlen) ELSE c

\* line.split('-')[0]
BarcodeSeq(ln) == ln[1]

\* the dict after the loop over the lines read (helpers.py 77-84)
RECURSIVE CountLines(_, _)
CountLines(lines, occ) ==
  IF lines = << >> THEN occ
  ELSE LET b == BarcodeSeq(Head(lines))
       IN  CountLines(Tail(lines), [occ EXCEPT ![b] = occ[b] + 1])

EmptyDict == [b \in Barcodes |-> 0]

\* lines 177-179: the barcodes written to the union file
FilterBarcodes(occ, f) == { b \in Barcodes : occ[b] > 0 /\ occ[b] >= f }

\* a file after lines are written from its start over what it holds
Overwrite(old, new) == new \o SubSeq(old, Len(new) + 1, Len(old))

\* the result slot of a task that has not ended; status: "pending",
\* "returned" (line 486), "raised" (an exception left gapfilling), "lost"
\* (the worker process ended in the task: no result message)
NoResult ==
  [done |-> FALSE, status |-> "pending", chunk |-> 0, occ |-> EmptyDict,
   union |-> {}]

\* the number of S lines of the input GFA
NSegments == 3

\* the values of -line the runs are checked for: the lines of the first and
\* of the second G line of a GFA made of the H line, the S lines and the G lines
LineValues == { None, NSegments + 2, NSegments + 3 }

\* line 523: the index in gfa.gaps the analysis starts from
FirstGap(ln) == ln - (NSegments + 2)

\* OrientedLine.__eq__ of gfapy: the same name and the same orientation
SameOriented(x, y) == x.name = y.name /\ x.orient = y.orient

\* Scaffold.chunk (helpers.py 53-60) of the scaffold object of `scaf` in
\* `gap`: the region "name:start-end"
chunk(scaf, gap, c) ==
  IF \/ scaf.orient = "+" /\ SameOriented(scaf, gap.left)
     \/ scaf.orient = "-" /\ SameOriented(scaf, gap.right)
    THEN [name |-> scaf.name, start |-> scaf.len - c, end |-> scaf.len]
    ELSE [name |-> scaf.name, start |-> 0, end |-> c]

\* a region not computed yet
NoRegion == [name |-> "", start |-> 0, end |-> 0]

\* the kinds of the lines of a GFA without G lines: the header, the
\* segments and, in some inputs, edges
LineKinds == { {"H", "S"}, {"H", "S", "E"} }

\* no run
PoolIdle ==
  /\ gaps = << >>
  /\ chunk_arg = 0
  /\ freq = 0
  /\ next_gap = 1
  /\ wpc = [w \in Workers |-> "idle"]
  /\ wgap = [w \in Workers |-> 0]
  /\ wchunk = [w \in Workers |-> 0]
  /\ barcodes_occ = [w \in Workers |-> EmptyDict]
  /\ scratch_name = 0
  /\ inode = [i \in Workers |-> << >>]
  /\ fd = [w \in Workers |-> 0]
  /\ results = << >>
  /\ emitted = [w \in Workers |-> EmptyDict]
  /\ left_region = [w \in Workers |-> NoRegion]
  /\ right_region = [w \in Workers |-> NoRegion]
  /\ outDir = {}

(***************************************************************************)
(* The breakpoint file: Python slices of the scaffold sequences.           *)
(***************************************************************************)
\* the scaffold lengths (slen) the breakpoint files are checked for
ScafLens == { 40, 100, 120 }

Orients == { "+", "-" }

\* the bases of the record of a scaffold: base i is held as i, its complement
\* as -i
RecordSeq(n) == [i \in 1..n |-> i]

\* rc: the reverse complement
rc(s) == [i \in 1..Len(s) |-> 0 - s[Len(s) + 1 - i]]

\* Scaffold.sequence (helpers.py 46-51)
sequence(scaf) ==
  IF scaf.orient = "+" THEN RecordSeq(scaf.len) ELSE rc(RecordSeq(scaf.len))

\* the position a slice bound stands for in a sequence of length n: a
\* negative bound counts from the end, and bounds are clipped to 0..n
SliceBound(n, b) ==
  IF b < 0 THEN (IF n + b < 0 THEN 0 ELSE n + b)
  ELSE (IF b > n THEN n ELSE b)

\* s[lo:hi] of Python
Slice(s, lo, hi) ==
  LET from == SliceBound(Len(s), lo)
      to   == SliceBound(Len(s), hi)
  IN  IF from >= to THEN << >> ELSE SubSeq(s, from + 1, to)

\* a breakpoint file whose bkpt2 records are cut from the forward sequences
BkptRecordsForward(left, right, kk, ext) ==
  << [id |-> "bkpt1", side |-> "left_kmer",
      seq |-> Slice(sequence(left), left.len - ext - kk, left.len - ext)],
     [id |-> "bkpt1", side |-> "right_kmer",
      seq |-> Slice(sequence(right), ext, ext + kk)],
     [id |-> "bkpt2", side |-> "left_kmer",
      seq |-> Slice(sequence(right), right.len - ext - kk, right.len - ext)],
     [id |-> "bkpt2", side |-> "right_kmer",
      seq |-> Slice(sequence(left), ext, ext + kk)] >>

\* lines 224-232: the four records of the breakpoint file of kk
BkptRecords(left, right, kk, ext) ==
  << [id |-> "bkpt1", side |-> "left_kmer",
      seq |-> Slice(sequence(left), left.len - ext - kk, left.len - ext)],
     [id |-> "bkpt1", side |-> "right_kmer",
      seq |-> Slice(sequence(right), ext, ext + kk)],
     [id |-> "bkpt2", side |-> "left_kmer",
      seq |-> Slice(rc(sequence(right)), right.len - ext - kk,
                    right.len - ext)],
     [id |-> "bkpt2", side |-> "right_kmer",
      seq |-> Slice(rc(sequence(left)), ext, ext + kk)] >>

\* the dispatcher is not looked at
DispIdle ==
  /\ line = None
  /\ dpc = "idle"
  /\ union_sum = << >>
  /\ out_gfa_file = << >>
  /\ completed = << >>
  /\ fatal = FALSE
  /\ gfa_lines = {}
  /\ out_gfa_lines = {}

\* the default of -max-length
DefaultMaxLength == 10000

\* the values of -max-length and the gap lengths the calls are checked for
MaxLengths == { 5000, DefaultMaxLength, 12000 }
GapLengths == { 100, DefaultMaxLength, 20000 }

\* lines 243-245: the value of max_length passed to mtg_fill
MaxLengthFor(cap, glen) ==
  IF cap = DefaultMaxLength /\ glen >= DefaultMaxLength
    THEN glen + 1000 ELSE cap

\* no breakpoint file is looked at
BkptIdle ==
  /\ left_scaffold = [orient |-> "+", len |-> 0]
  /\ right_scaffold = [orient |-> "+", len |-> 0]
  /\ bkpt = << >>
  /\ max_length_arg = 0
  /\ gap_length = 0
  /\ max_length = 0

(***************************************************************************)
(* Init: the state at the call of gapfilling.                              *)
(***************************************************************************)
\* no record is being graded
GradeIdle ==
  /\ reader_ref_stats = << >>
  /\ reader_revcomp_stats = << >>
  /\ record = [bkpt |-> 0, sol |-> "none"]
  /\ quality_gapfilled_seq = << >>
  /\ worsened = << >>
  /\ grade_pc = "idle"

\* gapfilling has not been called
SearchIdle ==
  /\ pc = "start"
  /\ ki = 0 /\ ai = 0 /\ k = 0 /\ a = 0
  /\ solution = "unbound"
  /\ solutions = << >>
  /\ output_for_gfa = << >>
  /\ bkpt_k = {}
  /\ out_gfa = << >>
  /\ attempts = << >>
  /\ procRuns = 0
  /\ lastOutcome = "none"
  /\ accepted = {}

Init ==
  /\ kmer \in KmerLists
  /\ abundance_threshold \in AbundLists
  /\ force \in BOOLEAN
  /\ refMode \in BOOLEAN
  /\ extension \in Extensions
  \* -ext is combined with the lists [51, 41] and [3, 2], without --force
  /\ extension # None =>
       kmer = << 51, 41 >> /\ abundance_threshold = << 3, 2 >> /\ ~force
  /\ SearchIdle
  /\ GradeIdle
  /\ PoolIdle
  /\ BkptIdle
  /\ DispIdle

(***************************************************************************)
(* Control flow between two calls of mtg_fill.                             *)
(*                                                                         *)
(* pc = "start"   gapfilling is called                                     *)
(*      "for_a"   at line 249, about to call mtg_fill for (kmer[ki],       *)
(*                abundance_threshold[ai])                                 *)
(*      "return"  gapfilling has returned (line 486)                       *)
(*      "raised"  an exception left gapfilling or the dispatcher           *)
(*      "exit"    parser.error ended the process (lines 292-295)           *)
(*      "merged"  the dispatcher has merged the result (lines 538-550)     *)
(***************************************************************************)
\* `for k in args.kmer:` at position i (lines 208-237): the breakpoint file
\* of kmer[i] is written and the abundance loop starts; past the end of the
\* list gapfilling returns (lines 481-486)
ForK(i, aa, sol, sols, out) ==
  /\ ki' = i
  /\ a' = aa
  /\ solution' = sol
  /\ solutions' = sols
  /\ output_for_gfa' = out
  /\ IF i <= Len(kmer)
       THEN /\ k' = kmer[i]
            /\ bkpt_k' = bkpt_k \cup { kmer[i] }
            /\ ai' = 1
            /\ pc' = "for_a"
       ELSE /\ pc' = "return"
            /\ UNCHANGED << k, bkpt_k, ai >>

\* an outer loop that runs the abundance loop of the same k again
AfterAAgain(aa, sol, sols, out) == ForK(ki, aa, sol, sols, out)

\* after the inner loop (lines 466-478), a being the last value of the loop
\* variable
AfterA(aa, sol, sols, out) ==
  IF sol = "True" /\ ~force
    THEN \* break
         /\ pc' = "return"
         /\ a' = aa
         /\ solution' = sol
         /\ solutions' = sols
         /\ output_for_gfa' = out
         /\ UNCHANGED << ki, ai, k, bkpt_k >>
    ELSE ForK(ki + 1, aa, sol, sols,
              IF /\ k = MinOf(kmer)
                 /\ aa = MinOf(abundance_threshold)
                 /\ Len(out) = 0
                THEN Append(out, GapLine)
                ELSE out)

\* an abundance loop that runs its iteration again when the attempt gave no
\* solution
NextARetry(aa, sol, sols, out) ==
  IF sol = "False" /\ Len(sols) = 0
    THEN /\ a' = aa
         /\ solution' = sol
         /\ solutions' = sols
         /\ output_for_gfa' = out
         /\ UNCHANGED << pc, ki, ai, k, bkpt_k >>
    ELSE AfterA(aa, sol, sols, out)

\* the end of one iteration of `for a in args.abundance_threshold:` that
\* did not break: the next iteration, or the end of the loop
NextA(aa, sol, sols, out) ==
  IF ai + 1 <= Len(abundance_threshold)
    THEN /\ ai' = ai + 1
         /\ a' = aa
         /\ solution' = sol
         /\ solutions' = sols
         /\ output_for_gfa' = out
         /\ UNCHANGED << pc, ki, k, bkpt_k >>
    ELSE AfterA(aa, sol, sols, out)

\* gapfilling is called: lines 123-237 for the first k
Begin ==
  /\ pc = "start"
  /\ ForK(1, a, solution, solutions, output_for_gfa)
  /\ UNCHANGED << cfgVars, out_gfa, histVars, gradeVars, poolVars, bkptVars, dispVars >>

(***************************************************************************)
(* mtg_fill (helpers.py 119-133): the command is executed by               *)
(* subprocess.run and again by subprocess.check_output; the second raises  *)
(* CalledProcessError when the assembler exits with a non-zero status.     *)
(***************************************************************************)
MtgFillRuns == 2

mtg_fill(exitStatus) == IF exitStatus = 0 THEN "returned" ELSE "raised"

(***************************************************************************)
(* One iteration of `for a in args.abundance_threshold:` (lines 237-463),  *)
(* by what the assembler and the statistics tool leave behind.             *)
(***************************************************************************)
\* the call of mtg_fill, shared by every outcome
Invoke(outcome) ==
  /\ pc = "for_a"
  /\ lastOutcome' = outcome
  /\ attempts' = Append(attempts, << k, abundance_threshold[ai] >>)
  /\ procRuns' = procRuns + MtgFillRuns

\* an exception or parser.error leaves gapfilling at this iteration
Leave(how) ==
  /\ pc' = how
  /\ a' = abundance_threshold[ai]
  /\ UNCHANGED << cfgVars, ki, ai, k, solution, solutions, output_for_gfa,
                  bkpt_k, out_gfa, accepted, gradeVars, poolVars, bkptVars, dispVars >>

\* the assembler failed: check_output raises out of gapfilling
AttemptFailed ==
  /\ Invoke("failed")
  /\ mtg_fill(1) = "raised"
  /\ Leave("raised")

\* no insertions.fasta at all: os.path.getsize raises FileNotFoundError
AttemptAbsent ==
  /\ Invoke("absent")
  /\ mtg_fill(0) = "returned"
  /\ Leave("raised")

\* an empty insertions.fasta: the else branch of lines 456-463
AttemptEmpty ==
  /\ Invoke("empty")
  /\ mtg_fill(0) = "returned"
  /\ NextA(abundance_threshold[ai], "False", solutions, << >>)
  /\ UNCHANGED << cfgVars, out_gfa, accepted, gradeVars, poolVars, bkptVars, dispVars >>

\* insertions, but a statistics file is missing: parser.error (lines 292-295)
AttemptNoStats ==
  /\ Invoke("nostats")
  /\ mtg_fill(0) = "returned"
  /\ Leave("exit")

\* insertions and statistics: grading (313-392), edges (404-444) and the
\* decision to stop or go on (447-453)
AttemptWith(batches) ==
  /\ Invoke("insertions")
  /\ mtg_fill(0) = "returned"
  /\ \E batch \in batches :
       LET aa     == abundance_threshold[ai]
           graded == GradedSolution(batch)
           edges  == IF graded = "True"
                       THEN EdgesOf(batch, Len(batch), k, aa) ELSE << >>
           sols   == IF graded = "True" THEN SolutionsOf(batch, k) ELSE << >>
       IN  /\ accepted' = accepted \cup GoodOf(batch, k, Len(attempts) + 1)
           /\ IF graded = "True" /\ BothStrands(sols)
                THEN AfterA(aa, "True", sols, edges)       \* break
                ELSE NextA(aa, "False", sols, edges)
  /\ UNCHANGED << cfgVars, out_gfa, gradeVars, poolVars, bkptVars, dispVars >>

AttemptInsertions == AttemptWith(Batches)

(***************************************************************************)
(* The dispatcher's merge of the result (lines 538-550):                   *)
(* `len(output_for_gfa[0]) > 1` raises IndexError on an empty list.        *)
(***************************************************************************)
\* len(output): an edge record has several fields, the gap entry is [line]
EntryLen(e) == IF e.kind = "edge" THEN 2 ELSE 1

Merge ==
  /\ pc = "return"
  /\ IF Len(output_for_gfa) = 0
       THEN pc' = "raised" /\ UNCHANGED out_gfa
       ELSE /\ pc' = "merged"
            /\ out_gfa' =
                 IF EntryLen(output_for_gfa[1]) > 1
                   THEN out_gfa \o output_for_gfa
                   ELSE Append(out_gfa, output_for_gfa[1])
  /\ UNCHANGED << cfgVars, ki, ai, k, a, solution, solutions, output_for_gfa,
                  bkpt_k, histVars, gradeVars, poolVars, bkptVars, dispVars >>

Next ==
  \/ Begin
  \/ AttemptFailed
  \/ AttemptAbsent
  \/ AttemptEmpty
  \/ AttemptNoStats
  \/ AttemptInsertions
  \/ Merge

Spec == Init /\ [][Next]_vars

\* the search when every call made by gapfilling and by the dispatcher ends,
\* by a return or by an exception: the interpreter takes its next step
\* the searches of the k list [51, 41] and the abundance list [3, 2], with
\* and without --force
InitEnds ==
  /\ Init
  /\ kmer = << 51, 41 >>
  /\ abundance_threshold = << 3, 2 >>
  /\ refMode
  /\ extension = None

SpecEnds == InitEnds /\ [][Next]_vars /\ WF_vars(Next)

(***************************************************************************)
(* The end-to-end scenario of the specification: k sizes [51, 41],         *)
(* abundance thresholds [3, 2], default extension, no --force, reference   *)
(* mode; the assembler returns for (51, 3) one insertion of length 620     *)
(* and grade AA on each strand, in either order of the file.               *)
(***************************************************************************)
ScenarioRecord(b) ==
  [bkpt |-> b, len |-> 620,
   stats |-> [ref |-> <<"A">>, left |-> <<"A">>, right |-> <<"A">>,
              revcomp |-> <<"A">>]]

ScenarioBatches ==
  { << ScenarioRecord(1), ScenarioRecord(2) >>,
    << ScenarioRecord(2), ScenarioRecord(1) >> }

InitScenario ==
  /\ Init
  /\ kmer = << 51, 41 >>
  /\ abundance_threshold = << 3, 2 >>
  /\ extension = None
  /\ ~force
  /\ refMode

ScenarioFirst == attempts = << >> /\ AttemptWith(ScenarioBatches)

ScenarioLater ==
  /\ attempts # << >>
  /\ \/ AttemptFailed
     \/ AttemptAbsent
     \/ AttemptEmpty
     \/ AttemptNoStats
     \/ AttemptInsertions

NextScenario ==
  \/ Begin
  \/ ScenarioFirst
  \/ ScenarioLater
  \/ Merge

SpecScenario == InitScenario /\ [][NextScenario]_vars

(***************************************************************************)
(* The grading of one record from the two statistics tables                *)
(* (lines 298-392).                                                        *)
(***************************************************************************)
\* left_scaffold.name, right_scaffold.name
LeftName  == "ctg1"
RightName == "ctg2"

\* the rows a xxx.ref_qry.alignment.stats may hold: the columns Solution,
\* Strand, Ref and Quality
RefRows ==
  { [Solution |-> sr[1], Strand |-> sr[2], Ref |-> sr[3], Quality |-> g] :
      sr \in { << "1/2", "fwd", LeftName >>, << "1/2", "fwd", RightName >>,
               << "1/2", "rev", LeftName >> },
      g \in Grades }

\* the rows a xxx.qry_qry.alignment.stats may hold: the columns Solution1 and
\* Solution2 (each names a solution and its strand) and Quality
SelfRows ==
  { [Solution1 |-> ss[1], Solution2 |-> ss[2], Quality |-> g] :
      ss \in { << [sol |-> "1/2", strand |-> "fwd"],
                  [sol |-> "2/2", strand |-> "rev"] >>,
               << [sol |-> "2/2", strand |-> "fwd"],
                  [sol |-> "1/2", strand |-> "rev"] >> },
      g \in Grades }

\* the records graded: record.id holds "bkpt1" or "bkpt2" and ends with the
\* solution suffix "_sol_i/n"
Records == { [bkpt |-> 1, sol |-> "1/2"], [bkpt |-> 2, sol |-> "1/2"] }

\* a file holding the rows of S, in some order
RECURSIVE FileOf(_)
FileOf(S) ==
  IF S = {} THEN << >>
  ELSE LET r == CHOOSE x \in S : TRUE IN << r >> \o FileOf(S \ {r})

Files(rows) == { FileOf(S) : S \in { T \in SUBSET rows : Cardinality(T) <= MaxRows } }

\* ("bkpt1" in record.id and strand == "fwd") or
\* ("bkpt2" in record.id and strand == "rev")
StrandMatches(rec, strand) ==
  \/ rec.bkpt = 1 /\ strand = "fwd"
  \/ rec.bkpt = 2 /\ strand = "rev"

\* row["Solution"] in record.id
InId(sol, rec) == sol = rec.sol

\* record.id.split('_')[-1] in row["SolutionN"] and the strand named there
SlotMatches(rec, slot) == rec.sol = slot.sol /\ StrandMatches(rec, slot.strand)

\* the Quality column of the rows of a file that pass a test, in file order
Qualities(rows, Test(_)) ==
  LET sel == SelectSeq(rows, Test) IN [i \in 1..Len(sel) |-> sel[i].Quality]

quality_ref(rows, rec) ==
  LET T(row) == InId(row.Solution, rec) /\ StrandMatches(rec, row.Strand)
  IN  Qualities(rows, T)

quality_ext_left(rows, rec) ==
  LET T(row) == /\ InId(row.Solution, rec) /\ StrandMatches(rec, row.Strand)
                /\ row.Ref = LeftName
  IN  Qualities(rows, T)

\* the elif: a row counted for the left scaffold is not counted again
quality_ext_right(rows, rec) ==
  LET T(row) == /\ InId(row.Solution, rec) /\ StrandMatches(rec, row.Strand)
                /\ row.Ref # LeftName
                /\ row.Ref = RightName
  IN  Qualities(rows, T)

quality_revcomp(rows, rec) ==
  LET T(row) == \/ SlotMatches(rec, row.Solution1)
                \/ SlotMatches(rec, row.Solution2)
  IN  Qualities(rows, T)

\* the lists of grades the two files give for a record
StatsOf(ref_rows, self_rows, rec) ==
  [ref     |-> quality_ref(ref_rows, rec),
   left    |-> quality_ext_left(ref_rows, rec),
   right   |-> quality_ext_right(ref_rows, rec),
   revcomp |-> quality_revcomp(self_rows, rec)]

\* record.description after grading
QualityOf(mode, ref_rows, self_rows, rec) ==
  ComposeQuality(mode, StatsOf(ref_rows, self_rows, rec))

\* the file with the grade of row i replaced by g
WithGrade(rows, i, g) == [rows EXCEPT ![i].Quality = g]

InitGrade ==
  /\ kmer = << 51, 41 >>
  /\ abundance_threshold = << 3, 2 >>
  /\ force = FALSE
  /\ refMode \in BOOLEAN
  /\ extension = None
  /\ SearchIdle
  /\ PoolIdle
  /\ BkptIdle
  /\ DispIdle
  /\ reader_ref_stats \in Files(RefRows)
  /\ reader_revcomp_stats \in Files(SelfRows)
  /\ record \in Records
  /\ quality_gapfilled_seq = << >>
  /\ worsened = << >>
  /\ grade_pc = "read"

\* one iteration of `for record in SeqIO.parse(query, "fasta")`
GradeRecord ==
  /\ grade_pc = "read"
  /\ quality_gapfilled_seq' =
       QualityOf(refMode, reader_ref_stats, reader_revcomp_stats, record)
  /\ grade_pc' = "graded"
  /\ UNCHANGED << cfgVars, searchVars, out_gfa, histVars, poolVars, bkptVars, dispVars,
                  reader_ref_stats, reader_revcomp_stats, record, worsened >>

\* the same record graded again, one row of one file carrying a worse grade
WorsenRow ==
  /\ grade_pc = "graded"
  /\ \/ \E i \in DOMAIN reader_ref_stats, g \in Grades :
          /\ Rank(g) > Rank(reader_ref_stats[i].Quality)
          /\ worsened' = QualityOf(refMode, WithGrade(reader_ref_stats, i, g),
                                   reader_revcomp_stats, record)
     \/ \E i \in DOMAIN reader_revcomp_stats, g \in Grades :
          /\ Rank(g) > Rank(reader_revcomp_stats[i].Quality)
          /\ worsened' = QualityOf(refMode, reader_ref_stats,
                                   WithGrade(reader_revcomp_stats, i, g),
                                   record)
  /\ grade_pc' = "row"
  /\ UNCHANGED << cfgVars, searchVars, out_gfa, histVars, poolVars, bkptVars, dispVars,
                  reader_ref_stats, reader_revcomp_stats, record, quality_gapfilled_seq >>

\* the composed grade with one of its letters replaced by a worse one
WorsenLetter ==
  /\ grade_pc = "graded"
  /\ \E i \in DOMAIN quality_gapfilled_seq, g \in Grades :
       /\ Rank(g) > Rank(quality_gapfilled_seq[i])
       /\ worsened' = [quality_gapfilled_seq EXCEPT ![i] = g]
  /\ grade_pc' = "letter"
  /\ UNCHANGED << cfgVars, searchVars, out_gfa, histVars, poolVars, bkptVars, dispVars,
                  reader_ref_stats, reader_revcomp_stats, record, quality_gapfilled_seq >>

NextGrade ==
  \/ GradeRecord
  \/ WorsenRow
  \/ WorsenLetter

SpecGrade == InitGrade /\ [][NextGrade]_vars

(***************************************************************************)
(* The pool (lines 532-538): p.map hands the gaps, in order, to the worker *)
(* processes; each worker process is a copy of the main process and keeps  *)
(* its module globals (args) from one task to the next.                    *)
(***************************************************************************)
InitPool ==
  /\ kmer = << 51, 41 >>
  /\ abundance_threshold = << 3, 2 >>
  /\ force = FALSE
  /\ refMode = TRUE
  /\ extension = None
  /\ SearchIdle
  /\ GradeIdle
  /\ BkptIdle
  /\ line \in LineValues
  /\ dpc = "init"
  /\ union_sum = << >>
  /\ out_gfa_file = << >>
  /\ completed = << >>
  /\ fatal = FALSE
  /\ gfa_lines = {"H", "S"}
  /\ out_gfa_lines = {}
  /\ gaps \in GapLists
  /\ chunk_arg \in ChunkSizes
  /\ freq \in Freqs
  /\ next_gap = 1
  /\ wpc = [w \in Workers |-> "idle"]
  /\ wgap = [w \in Workers |-> 0]
  /\ wchunk = [w \in Workers |-> chunk_arg]
  /\ barcodes_occ = [w \in Workers |-> EmptyDict]
  /\ scratch_name = 0
  /\ inode = [i \in Workers |-> << >>]
  /\ fd = [w \in Workers |-> 0]
  /\ results = [g \in DOMAIN gaps |-> NoResult]
  /\ emitted = [w \in Workers |-> EmptyDict]
  /\ left_region = [w \in Workers |-> NoRegion]
  /\ right_region = [w \in Workers |-> NoRegion]
  /\ outDir = {}

\* gap_label (Gap.label, helpers.py 20-24) of a gap without id
GapLabel(gap) == << gap.left.name, gap.left.orient, gap.right.name,
                    gap.right.orient >>

\* the names of the files of a task in the working directory (lines 142,
\* 156, 165, 174, 185), held as the fields that make the name
tmp_gap_file(gap) == << "tmp.gap", GapLabel(gap) >>
left_barcodes_file(gap, c) ==
  << "left.barcodes", gap.left.name, gap.left.orient, c >>
right_barcodes_file(gap, c) ==
  << "right.barcodes", gap.right.name, gap.right.orient, c >>
union_barcodes_file(gap, c) == << "bxu", GapLabel(gap), c >>
union_reads_file(gap, c) == << "rbxu.fastq", GapLabel(gap), c >>

idleInPool == << cfgVars, searchVars, out_gfa, histVars, gradeVars, bkptVars >>

\* a free worker takes the next gap: gapfilling up to line 152, with the
\* clamp of args.chunk of lines 139-140
StartTask(w) ==
  /\ dpc = "map"
  /\ wpc[w] = "idle"
  /\ next_gap <= Len(gaps)
  /\ wgap' = [wgap EXCEPT ![w] = next_gap]
  /\ next_gap' = next_gap + 1
  /\ wchunk' = [wchunk EXCEPT ![w] =
                  ClampChunk(wchunk[w], gaps[next_gap].left.len,
                             gaps[next_gap].right.len)]
  /\ barcodes_occ' = [barcodes_occ EXCEPT ![w] = EmptyDict]
  /\ emitted' = [emitted EXCEPT ![w] = EmptyDict]
  /\ left_region' = [left_region EXCEPT ![w] = NoRegion]
  /\ right_region' = [right_region EXCEPT ![w] = NoRegion]
  /\ outDir' = outDir \cup { tmp_gap_file(gaps[next_gap]) }
  /\ wpc' = [wpc EXCEPT ![w] = "left_open"]
  /\ UNCHANGED << idleInPool, dispVars, gaps, chunk_arg, freq, scratch_name, inode, fd,
                  results >>

\* an inode no name and no open file refers to
FreeInode ==
  CHOOSE i \in Workers : i # scratch_name /\ \A v \in Workers : fd[v] # i

\* lines 155-158 and 163-166: the region of the side and its barcodes file,
\* then extract_barcodes, helpers.py 73: 'bam-extractor-stdout.txt' is opened
\* "w+" in the working directory, which all tasks share: the file is created,
\* or truncated when the name exists
ExtractOpen(w) ==
  /\ wpc[w] \in {"left_open", "right_open"}
  /\ LET gap == gaps[wgap[w]]
     IN  IF wpc[w] = "left_open"
           THEN /\ left_region' = [left_region EXCEPT ![w] =
                                     chunk(gap.left, gap, wchunk[w])]
                /\ outDir' = outDir \cup { left_barcodes_file(gap, wchunk[w]) }
                /\ UNCHANGED right_region
           ELSE /\ right_region' = [right_region EXCEPT ![w] =
                                      chunk(gap.right, gap, wchunk[w])]
                /\ outDir' = outDir \cup { right_barcodes_file(gap, wchunk[w]) }
                /\ UNCHANGED left_region
  /\ LET i == IF scratch_name # 0 THEN scratch_name ELSE FreeInode
     IN  /\ scratch_name' = i
         /\ fd' = [fd EXCEPT ![w] = i]
         /\ inode' = [inode EXCEPT ![i] = << >>]
  /\ wpc' = [wpc EXCEPT ![w] =
               IF wpc[w] = "left_open" THEN "left_run" ELSE "right_run"]
  /\ UNCHANGED << idleInPool, dispVars, gaps, chunk_arg, freq, next_gap, wgap, wchunk,
                  barcodes_occ, results, emitted >>

\* extract_barcodes, helpers.py 74: BamExtractor prints the barcodes of the
\* region into the open file, from its start
ExtractRun(w) ==
  /\ wpc[w] \in {"left_run", "right_run"}
  /\ \E out \in ExtractorOutputs :
       /\ inode' = [inode EXCEPT ![fd[w]] = Overwrite(inode[fd[w]], out)]
       /\ emitted' = [emitted EXCEPT ![w] = CountLines(out, emitted[w])]
  /\ wpc' = [wpc EXCEPT ![w] =
               IF wpc[w] = "left_run" THEN "left_read" ELSE "right_read"]
  /\ UNCHANGED << idleInPool, dispVars, gaps, chunk_arg, freq, next_gap, wgap, wchunk,
                  barcodes_occ, scratch_name, fd, results, left_region,
                  right_region, outDir >>

\* extract_barcodes, helpers.py 75-92: the lines of the open file are read
\* and counted, the file is closed and removed by name
ExtractRead(w) ==
  /\ wpc[w] \in {"left_read", "right_read"}
  /\ barcodes_occ' = [barcodes_occ EXCEPT ![w] =
                        CountLines(inode[fd[w]], barcodes_occ[w])]
  /\ fd' = [fd EXCEPT ![w] = 0]
  /\ scratch_name' = 0
  /\ inode' = [i \in Workers |->
                 IF \E v \in Workers \ {w} : fd[v] = i THEN inode[i]
                 ELSE << >>]
  /\ wpc' = [wpc EXCEPT ![w] =
               IF wpc[w] = "left_read" THEN "right_open" ELSE "filter"]
  /\ UNCHANGED << idleInPool, dispVars, gaps, chunk_arg, freq, next_gap, wgap, wchunk,
                  results, emitted, left_region, right_region, outDir >>

\* the intermediate files the task of worker w has written so far in the
\* working directory: tmp_gap_file (line 143), the left and right barcodes
\* files (lines 156, 165) and the scratch file of extract_barcodes
\* (helpers.py 73)
FilesWritten(w) ==
  IF wgap[w] = 0 THEN {}
  ELSE LET gap == gaps[wgap[w]]
       IN  { tmp_gap_file(gap) }
           \cup (IF wpc[w] = "left_open" THEN {}
                 ELSE { left_barcodes_file(gap, wchunk[w]),
                        << "bam-extractor-stdout.txt" >> })
           \cup (IF wpc[w] \in {"right_run", "right_read", "filter",
                                "search"}
                   THEN { right_barcodes_file(gap, wchunk[w]) }
                   ELSE {})

\* lines 172-199: the union file of the barcodes of frequency >= args.freq
\* and the file of their reads are written, then the two barcodes files and
\* the union file are removed
CollectEvidence(w) ==
  /\ wpc[w] = "filter"
  /\ LET gap == gaps[wgap[w]]
         c   == wchunk[w]
     IN  outDir' = (outDir \cup { union_barcodes_file(gap, c),
                                 union_reads_file(gap, c) })
                     \ { left_barcodes_file(gap, c),
                         right_barcodes_file(gap, c),
                         union_barcodes_file(gap, c) }
  /\ wpc' = [wpc EXCEPT ![w] = "search"]
  /\ UNCHANGED << idleInPool, dispVars, gaps, chunk_arg, freq, next_gap, wgap,
                  wchunk, barcodes_occ, scratch_name, inode, fd, results,
                  emitted, left_region, right_region >>

\* the end of the task: the search (lines 205-486), by how it ends, with
\* the summary of lines 192-194; a task that returns removes its
\* tmp_gap_file (line 483)
EndTask(w, how) ==
  /\ wpc[w] = "search"
  /\ outDir' = IF how = "returned"
                 THEN outDir \ { tmp_gap_file(gaps[wgap[w]]) } ELSE outDir
  /\ results' = [results EXCEPT ![wgap[w]] =
                   [done   |-> TRUE,
                    status |-> how,
                    chunk  |-> wchunk[w],
                    occ    |-> barcodes_occ[w],
                    union  |-> FilterBarcodes(barcodes_occ[w], freq)]]
  /\ wpc' = [wpc EXCEPT ![w] = "idle"]
  /\ wgap' = [wgap EXCEPT ![w] = 0]
  /\ UNCHANGED << idleInPool, gaps, chunk_arg, freq,
                  next_gap, barcodes_occ, scratch_name, inode, fd, emitted,
                  left_region, right_region >>

\* a pool that takes the end of the worker process for the return of its task
ExitAsReturn == "returned"

\* what the pool holds for a task whose worker process ended in it: the
\* process sends no result message
ExitStatus == "lost"

\* gapfilling returns (line 486): the worker sends the result and is free for
\* its next task, its module globals as the task left them
FinishTask(w) ==
  /\ EndTask(w, "returned")
  /\ completed' = Append(completed, wgap[w])
  /\ UNCHANGED << wchunk, line, dpc, union_sum, out_gfa_file, fatal,
                  gfa_lines, out_gfa_lines >>

\* an exception leaves gapfilling (lines 249-251): the worker sends it as the
\* result of the task and is free for its next task
TaskRaise(w) ==
  /\ EndTask(w, "raised")
  /\ UNCHANGED << wchunk, dispVars >>

\* parser.error in gapfilling (lines 292-295): SystemExit ends the worker
\* process, which the pool replaces by a new copy of the main process
TaskExit(w) ==
  /\ EndTask(w, ExitStatus)
  /\ fatal' = TRUE
  /\ wchunk' = [wchunk EXCEPT ![w] = chunk_arg]
  /\ UNCHANGED << line, dpc, union_sum, out_gfa_file, completed, gfa_lines,
                  out_gfa_lines >>

\* lines 496-532: a GFA without gaps is written whole to the output; without
\* '-line' the output is then written anew with the header and the segments
\* and the pool is created; with '-line' the list of gaps is built and
\* nothing else is done with it
Dispatch ==
  /\ dpc = "init"
  /\ out_gfa_lines' =
       LET noGap == IF Len(gaps) = 0 THEN gfa_lines ELSE out_gfa_lines
       IN  IF line = None THEN {"H", "S"} ELSE noGap
  /\ dpc' = IF line # None THEN "end" ELSE "map"
  /\ UNCHANGED << idleInPool, poolVars, line, union_sum, out_gfa_file,
                  completed, fatal, gfa_lines >>

\* a map that hands over as soon as one task has returned
MapDoneEarly == \E g \in DOMAIN results : results[g].status = "returned"

\* p.map (line 538) returns once every task has sent its result
MapDone ==
  \A g \in DOMAIN results : results[g].status \in {"returned", "raised"}

\* p.map returns the list of the results, or raises the exception of a task
MapReturn ==
  /\ dpc = "map"
  /\ MapDone
  /\ dpc' = IF \E g \in DOMAIN results : results[g].status = "raised"
              THEN "raised"
            ELSE IF Len(gaps) = 0 THEN "end" ELSE "merge"
  /\ UNCHANGED << idleInPool, poolVars, line, union_sum, out_gfa_file,
                  completed, fatal, gfa_lines, out_gfa_lines >>

\* the results taken in the order the tasks returned
NextCompleted == completed[Len(union_sum) + 1]

\* the loop of line 538 takes the results in the order of the list p.map
\* returned, which is the order of `gaps`
NextToMerge == Len(union_sum) + 1

\* one iteration of the loop over the list p.map returned (lines 538-550):
\* the row of the summary and the lines of the graph of the next gap
MergeNext ==
  /\ dpc = "merge"
  /\ LET g == NextToMerge
     IN  /\ union_sum' = Append(union_sum, g)
         /\ out_gfa_file' = Append(out_gfa_file, g)
         /\ dpc' = IF Len(union_sum) + 1 = Len(gaps) THEN "end" ELSE "merge"
  /\ UNCHANGED << idleInPool, poolVars, line, completed, fatal, gfa_lines,
                  out_gfa_lines >>

NextPool ==
  \/ Dispatch
  \/ \E w \in Workers :
        \/ StartTask(w)
        \/ ExtractOpen(w)
        \/ ExtractRun(w)
        \/ ExtractRead(w)
        \/ CollectEvidence(w)
        \/ FinishTask(w)
        \/ TaskRaise(w)
        \/ TaskExit(w)
  \/ MapReturn
  \/ MergeNext

SpecPool == InitPool /\ [][NextPool]_vars

(***************************************************************************)
(* The run on a GFA of at most one gap, over all the ways the gap joins    *)
(* two scaffolds.                                                          *)
(***************************************************************************)
\* the S lines of the GFA a gap may join, and the gaps made of them
RunSegments == { << "ctg1", 3 >>, << "ctg2", 6 >> }
RunGaps ==
  { [left  |-> Scaffold(l[1], lo, l[2]), right |-> Scaffold(r[1], ro, r[2])] :
      l \in RunSegments, r \in RunSegments, lo \in Orients, ro \in Orients }

InitRun ==
  /\ kmer = << 51, 41 >>
  /\ abundance_threshold = << 3, 2 >>
  /\ force = FALSE
  /\ refMode = TRUE
  /\ extension = None
  /\ SearchIdle
  /\ GradeIdle
  /\ BkptIdle
  /\ line \in { None, NSegments + 2 }
  /\ dpc = "init"
  /\ union_sum = << >>
  /\ out_gfa_file = << >>
  /\ completed = << >>
  /\ fatal = FALSE
  /\ gfa_lines \in LineKinds
  /\ out_gfa_lines = {}
  /\ gaps \in { << >> } \cup { << g >> : g \in RunGaps }
  /\ chunk_arg \in ChunkSizes
  /\ freq \in Freqs
  /\ next_gap = 1
  /\ wpc = [w \in Workers |-> "idle"]
  /\ wgap = [w \in Workers |-> 0]
  /\ wchunk = [w \in Workers |-> chunk_arg]
  /\ barcodes_occ = [w \in Workers |-> EmptyDict]
  /\ scratch_name = 0
  /\ inode = [i \in Workers |-> << >>]
  /\ fd = [w \in Workers |-> 0]
  /\ results = [g \in DOMAIN gaps |-> NoResult]
  /\ emitted = [w \in Workers |-> EmptyDict]
  /\ left_region = [w \in Workers |-> NoRegion]
  /\ right_region = [w \in Workers |-> NoRegion]
  /\ outDir = {}

SpecRun == InitRun /\ [][NextPool]_vars

(***************************************************************************)
(* The breakpoint files of one gap (lines 208-232): one file per k of      *)
(* `for k in args.kmer`, written before the abundance loop of that k.      *)
(***************************************************************************)
InitBkpt ==
  /\ kmer \in KmerLists
  /\ abundance_threshold = << 3, 2 >>
  /\ force = FALSE
  /\ refMode = TRUE
  /\ extension \in Extensions
  /\ SearchIdle
  /\ GradeIdle
  /\ PoolIdle
  /\ DispIdle
  /\ left_scaffold \in [orient : Orients, len : ScafLens]
  /\ right_scaffold \in [orient : Orients, len : ScafLens]
  /\ bkpt = << >>
  /\ max_length_arg \in MaxLengths
  /\ gap_length \in GapLengths
  /\ max_length = 0

\* the next iteration of `for k in args.kmer` up to line 232
WriteBkpt ==
  /\ pc \in {"start", "bkpt", "args"}
  /\ ki < Len(kmer)
  /\ ki' = ki + 1
  /\ k' = kmer[ki + 1]
  /\ bkpt_k' = bkpt_k \cup { kmer[ki + 1] }
  /\ bkpt' = BkptRecords(left_scaffold, right_scaffold, kmer[ki + 1],
                         Ext(kmer[ki + 1]))
  /\ pc' = "bkpt"
  /\ UNCHANGED << cfgVars, ai, a, solution, solutions, output_for_gfa,
                  out_gfa, histVars, gradeVars, poolVars, dispVars,
                  left_scaffold, right_scaffold, max_length_arg, gap_length,
                  max_length >>

\* lines 237-248 of an iteration of the abundance loop: the arguments of the
\* call of mtg_fill
SetMaxLength ==
  /\ pc = "bkpt"
  /\ max_length' = MaxLengthFor(max_length_arg, gap_length)
  /\ pc' = "args"
  /\ UNCHANGED << cfgVars, ki, ai, k, a, solution, solutions, output_for_gfa,
                  bkpt_k, out_gfa, histVars, gradeVars, poolVars, dispVars,
                  left_scaffold, right_scaffold, bkpt, max_length_arg,
                  gap_length >>

\* the search ends after the k's whose files were written (lines 466-486)
EndBkpt ==
  /\ pc \in {"bkpt", "args"}
  /\ pc' = "return"
  /\ UNCHANGED << cfgVars, ki, ai, k, a, solution, solutions, output_for_gfa,
                  bkpt_k, out_gfa, histVars, gradeVars, poolVars, bkptVars, dispVars >>

NextBkpt ==
  \/ WriteBkpt
  \/ SetMaxLength
  \/ EndBkpt

SpecBkpt == InitBkpt /\ [][NextBkpt]_vars

(***************************************************************************)
(* Claims about the search of one gap.                                     *)
(***************************************************************************)
\* the entries of output_for_gfa that are edge records
IsEdge(e) == e.kind = "edge"

\* attempt n's batch held a good candidate on each strand
BothAt(n) == << n, 1 >> \in accepted /\ << n, 2 >> \in accepted

\* the grid of declared pairs, in iteration order
Grid ==
  [i \in 1..(Len(kmer) * Len(abundance_threshold)) |->
     << kmer[((i - 1) \div Len(abundance_threshold)) + 1],
        abundance_threshold[((i - 1) % Len(abundance_threshold)) + 1] >>]

\* C1: without --force, once the batch of a pair holds an accepted candidate
\* on the forward strand and one on the reverse strand, the assembler is
\* invoked for no later pair, whatever the order of the records in the batch.
C1_NoAttemptAfterBoth ==
  ~force => \A n \in 1..Len(attempts) : BothAt(n) => Len(attempts) = n

\* C2: with --force, a search that returns has invoked the assembler for
\* every declared (k, a) pair, also after an acceptance.
C2_ForceAttemptsAll ==
  (force /\ pc = "return") => attempts = Grid

\* C3: when no pair yielded an accepted candidate, gapfilling returns exactly
\* the original gap record, for every order of the k and abundance lists.
C3_NoAcceptanceKeepsGap ==
  (pc = "return" /\ accepted = {}) => output_for_gfa = << GapLine >>

\* C4: the returned list is non-empty and is either edge records only or the
\* single gap record, and what the dispatcher adds is of that one kind.
C4_OneOutcome ==
  /\ pc = "return" =>
       /\ Len(output_for_gfa) > 0
       /\ \/ \A i \in DOMAIN output_for_gfa : IsEdge(output_for_gfa[i])
          \/ output_for_gfa = << GapLine >>
  /\ pc \in {"return", "raised", "exit"} => out_gfa = << >>
  /\ pc = "merged" => out_gfa = output_for_gfa /\ Len(out_gfa) > 0

\* C5: with --force, the returned list holds an edge record for every
\* acceptance at every attempted pair.
C5_ForceKeepsAll ==
  (force /\ pc = "return") =>
     \A acc \in accepted :
        \E i \in DOMAIN output_for_gfa :
           /\ IsEdge(output_for_gfa[i])
           /\ << output_for_gfa[i].k, output_for_gfa[i].a >> = attempts[acc[1]]
           /\ output_for_gfa[i].bkpt = acc[2]

\* C6: in the end-to-end scenario the search returns after exactly one
\* assembler invocation with two edge records and no gap line.
C6_ScenarioOneInvocation ==
  pc = "return" =>
     /\ Len(attempts) = 1
     /\ Len(output_for_gfa) = 2
     /\ \A i \in DOMAIN output_for_gfa : IsEdge(output_for_gfa[i])

\* C7: an assembler invocation that fails, or that leaves no insertions
\* file, is a negative result like an empty file: the search goes on to the
\* next pair or returns, and nothing is raised.
C7_FailureIsNegativeResult ==
  [][ (attempts' # attempts /\ lastOutcome' \in {"failed", "absent"})
        => pc' \in {"for_a", "return"} ]_vars

(***************************************************************************)
(* Claims about the grading.                                               *)
(***************************************************************************)
\* C8: grade composition is monotonic in both modes: replacing the grade of
\* a statistics row, or a letter of the composed grade, by a strictly worse
\* one never turns a rejected record into an accepted one.
C8_GradeMonotonic ==
  grade_pc \in {"row", "letter"} =>
     (Match(refMode, worsened) => Match(refMode, quality_gapfilled_seq))

\* C8 witness: a record accepted as graded is rejected once one row of its
\* statistics carries a worse grade.
C8_Witness ==
  /\ grade_pc = "row"
  /\ Match(refMode, quality_gapfilled_seq)
  /\ ~Match(refMode, worsened)

(***************************************************************************)
(* Claims about the tasks of a run.                                        *)
(***************************************************************************)

\* C9: for every gap whose requested chunk size (-c) is larger than the
\* length of either flanking scaffold, the chunk size its task used is the
\* minimum of the two scaffold lengths; when the requested size exceeds
\* neither length, the task used it unchanged.
C9_ChunkClamp ==
  \A g \in DOMAIN results :
     results[g].done =>
       LET llen == gaps[g].left.len
           rlen == gaps[g].right.len
       IN  IF chunk_arg > llen \/ chunk_arg > rlen
             THEN results[g].chunk = (IF llen <= rlen THEN llen ELSE rlen)
             ELSE results[g].chunk = chunk_arg

\* C10: after both extractions of a gap, the count of each barcode is the
\* number of times BamExtractor printed it for the left region plus the
\* number of times it printed it for the right region; and the barcodes of
\* the task's union file are exactly the counted barcodes whose count is at
\* least args.freq.
C10_BarcodeEvidence ==
  /\ \A w \in Workers :
        wpc[w] = "filter" => barcodes_occ[w] = emitted[w]
  /\ \A g \in DOMAIN results :
        results[g].done =>
          results[g].union =
            { b \in Barcodes : results[g].occ[b] > 0
                               /\ results[g].occ[b] >= freq }

(***************************************************************************)
(* Claims about the breakpoint file.                                       *)
(***************************************************************************)

\* C11: whatever the scaffold lengths, k and the extension, the breakpoint
\* file written for k holds exactly four probe sequences, each of length
\* exactly k.
C11_FourProbesOfLengthK ==
  pc = "bkpt" =>
    /\ Len(bkpt) = 4
    /\ \A i \in DOMAIN bkpt : Len(bkpt[i].seq) = k

(***************************************************************************)
(* Claims about the dispatcher and the pool.                               *)
(***************************************************************************)

\* C12, as stated: the rows of the summary and the lines of the graph are
\* written in the order the tasks completed: a gap whose task completed
\* earlier is merged before a gap declared earlier whose task completed
\* later.
C12_MergeInCompletionOrder ==
  /\ union_sum = SubSeq(completed, 1, Len(union_sum))
  /\ out_gfa_file = SubSeq(completed, 1, Len(out_gfa_file))

\* C12, amended: the rows of the summary and the lines of the graph are
\* written in the order the gaps are declared, and only once every task has
\* returned, whatever the order the tasks completed in.
C12_MergeInDeclarationOrder ==
  /\ union_sum = [i \in 1..Len(union_sum) |-> i]
  /\ out_gfa_file = union_sum
  /\ union_sum # << >> =>
       \A g \in DOMAIN results : results[g].status = "returned"

\* the second gap completed first and the first gap is merged first
C12_Witness ==
  /\ completed = << 2, 1 >>
  /\ union_sum = << 1 >>

\* C13: two tasks that run at the same time have no intermediate file in
\* common, the barcodes files of a shared flanking scaffold and the scratch
\* output of the barcode extractor included.
C13_NoFileCollision ==
  \A w, v \in Workers :
     (w # v /\ wgap[w] # 0 /\ wgap[v] # 0) =>
       FilesWritten(w) \cap FilesWritten(v) = {}

\* C14: a task starts from the run's configuration: the args.chunk a free
\* worker holds for its next task is the value given to -c, whatever gaps
\* the worker has processed before.
C14_NoCarryOver ==
  \A w \in Workers : wpc[w] = "idle" => wchunk[w] = chunk_arg

\* C15: the summary and the graph are written by the dispatcher only, in its
\* merge loop, the result of one gap at a time and after the task of that
\* gap has returned; no step of a task writes either of them.
C15_SingleWriter ==
  [][ (union_sum' # union_sum \/ out_gfa_file' # out_gfa_file) =>
        /\ dpc = "merge"
        /\ wpc' = wpc /\ wgap' = wgap /\ results' = results
        /\ \E g \in DOMAIN gaps :
              /\ union_sum' = Append(union_sum, g)
              /\ out_gfa_file' = Append(out_gfa_file, g)
              /\ results[g].status = "returned"
              /\ \A w \in Workers : wgap[w] # g ]_vars

\* the results of both gaps have been merged
C15_Witness == dpc = "end" /\ Len(union_sum) = 2 /\ Len(out_gfa_file) = 2

\* C16: once a task has met a missing alignment-statistics file after a
\* non-empty assembler result (parser.error), that task is not continued and
\* no result, of that gap or of another, is written to the summary or to
\* the graph.
C16_FatalStopsRun ==
  fatal =>
    /\ union_sum = << >>
    /\ out_gfa_file = << >>
    /\ dpc \notin {"merge", "end"}
    /\ \A g \in DOMAIN results :
          results[g].status = "lost" => \A w \in Workers : wgap[w] # g

\* one task met the fatal condition, the task of the other gap has returned
\* and no worker is busy: the result of the other gap stays unmerged
C16_Witness ==
  /\ fatal
  /\ \E g \in DOMAIN results : results[g].status = "returned"
  /\ \A w \in Workers : wpc[w] = "idle"

\* C17: with -line, once the run has ended, every gap from that line onward
\* has been gap-filled and merged, as in a run without -line over those
\* gaps.
C17_LineStartsThere ==
  (dpc = "end" /\ line # None) =>
    /\ union_sum = [i \in 1..(Len(gaps) - FirstGap(line)) |->
                      FirstGap(line) + i]
    /\ out_gfa_file = union_sum

(***************************************************************************)
(* Further claims about the search of one gap and about grading.           *)
(***************************************************************************)
\* the position of a pair in the grid
GridIndex(pair) == CHOOSE i \in DOMAIN Grid : Grid[i] = pair

\* C18: an attempt whose batch does not hold an accepted candidate on both
\* strands (one strand only, or none) is followed by the attempt of the
\* next pair of the grid, and the search returns after such an attempt only
\* when its pair is the last of the grid.
C18_StopsOnlyOnBoth ==
  \A n \in DOMAIN attempts :
     ~BothAt(n) =>
       /\ n < Len(attempts) =>
            GridIndex(attempts[n + 1]) = GridIndex(attempts[n]) + 1
       /\ (n = Len(attempts) /\ pc \in {"return", "merged"}) =>
            GridIndex(attempts[n]) = Len(Grid)

\* the worst (alphabetically largest) grade of a list, D for the empty list
Worst(qs) ==
  IF qs = << >> THEN "D"
  ELSE CHOOSE g \in { qs[i] : i \in DOMAIN qs } :
         \A h \in { qs[i] : i \in DOMAIN qs } : Rank(g) >= Rank(h)

\* C19: each letter of the composed grade of a record is the worst grade
\* among the rows matching the record for that criterion, and D when no row
\* matches.
C19_WorstGradeOfMatches ==
  grade_pc = "graded" =>
    LET st == StatsOf(reader_ref_stats, reader_revcomp_stats, record)
    IN  quality_gapfilled_seq =
          IF refMode
            THEN << Worst(st.ref), Worst(st.revcomp) >>
            ELSE << Worst(st.left), Worst(st.right), Worst(st.revcomp) >>

\* C20: every edge record of the task's output, and of the graph, stands
\* for a candidate whose composed grade matches the grammar of the mode and
\* whose sequence is strictly longer than twice the extension.
C20_EdgesAreEligible ==
  \A e \in { output_for_gfa[i] : i \in DOMAIN output_for_gfa }
             \cup { out_gfa[i] : i \in DOMAIN out_gfa } :
     IsEdge(e) => Match(refMode, e.quality) /\ e.len > 2 * Ext(e.k)

\* a batch of two records gave one edge, for its second record: the first
\* record was not eligible
C20_Witness ==
  /\ pc = "return"
  /\ Len(output_for_gfa) = 1
  /\ IsEdge(output_for_gfa[1])
  /\ output_for_gfa[1].sol = 2

\* the edge of output_for_gfa that stands for an acceptance << n, strand >>
EdgeFor(acc) ==
  \E i \in DOMAIN output_for_gfa :
     /\ IsEdge(output_for_gfa[i])
     /\ << output_for_gfa[i].k, output_for_gfa[i].a >> = attempts[acc[1]]
     /\ output_for_gfa[i].bkpt = acc[2]

\* C21: when gapfilling returns, every accepted candidate of the batch of
\* the last attempted pair, whatever its position in the batch, has its edge
\* record in the output.
C21_GoodCandidateEmitted ==
  pc = "return" =>
    \A acc \in accepted : acc[1] = Len(attempts) => EdgeFor(acc)

\* C22: the output holds the gap line only when no candidate was accepted
\* at any pair; when candidates were accepted on one strand only, at the
\* last pair or at an earlier one, the output holds their edge records.
C22_GapLineOnlyWhenNoneAccepted ==
  pc = "return" =>
    /\ (\E i \in DOMAIN output_for_gfa : output_for_gfa[i] = GapLine) =>
         accepted = {}
    /\ (\A n \in DOMAIN attempts : ~BothAt(n)) =>
         \A acc \in accepted : EdgeFor(acc)

\* C23: the assembler command has been executed exactly once per attempted
\* (k, a) pair.
C23_OneRunPerAttempt == procRuns = Len(attempts)

\* C24: for a gap of declared length >= 10000, every configured cap below
\* the gap length is raised to length + 1000 in the call of the assembler;
\* for a shorter gap, or a cap above the gap length, the configured cap is
\* passed unchanged.
C24_MaxLengthCoversGap ==
  pc = "args" =>
    /\ (gap_length >= 10000 /\ max_length_arg < gap_length) =>
         max_length = gap_length + 1000
    /\ (gap_length < 10000 \/ max_length_arg > gap_length) =>
         max_length = max_length_arg

\* the interval the claim gives a side of a gap: the gap-adjacent end of the
\* scaffold
AtGapEnd(region, scaf, side, c) ==
  /\ IF (side = "left") = (scaf.orient = "+")
       THEN region.start = scaf.len - c /\ region.end = scaf.len
       ELSE region.start = 0 /\ region.end = c
  /\ 0 <= region.start
  /\ region.start <= region.end
  /\ region.end <= scaf.len
  /\ region.end - region.start = c

\* C25: with the chunk size c after the clamp, the left region is
\* [len - c, len] for a forward and [0, c] for a reverse left scaffold, the
\* right region is [0, c] for a forward and [len - c, len] for a reverse
\* right scaffold, and every region has 0 <= start <= end <= len and
\* end - start = c.
C25_ChunkAtGapEnd ==
  \A w \in Workers :
     wgap[w] # 0 =>
       LET gap == gaps[wgap[w]]
       IN  /\ left_region[w] # NoRegion =>
                AtGapEnd(left_region[w], gap.left, "left", wchunk[w])
           /\ right_region[w] # NoRegion =>
                AtGapEnd(right_region[w], gap.right, "right", wchunk[w])

\* C27: when the evidence stage of a gap has ended, its left and right
\* barcodes files are gone from the working directory, its filtered barcode
\* list and its read file are there, and nothing else of the task was
\* deleted (its tmp_gap_file is still there).
C27_EvidenceFilesKept ==
  \A w \in Workers :
     wpc[w] = "search" =>
       LET gap == gaps[wgap[w]]
           c   == wchunk[w]
       IN  /\ left_barcodes_file(gap, c) \notin outDir
           /\ right_barcodes_file(gap, c) \notin outDir
           /\ union_barcodes_file(gap, c) \in outDir
           /\ union_reads_file(gap, c) \in outDir
           /\ tmp_gap_file(gap) \in outDir

\* C28: at the end of a run on a GFA without gaps the output GFA holds
\* every line of the input, not only the header and the segments.
C28_NoGapCopiesAllLines ==
  (dpc = "end" /\ Len(gaps) = 0) => gfa_lines \subseteq out_gfa_lines

\* C26: when k plus the extension is at most the length of both scaffolds,
\* the left probe of bkpt2 is the reverse complement of the right probe of
\* bkpt1 and the right probe of bkpt2 is the reverse complement of the left
\* probe of bkpt1.
C26_Bkpt2MirrorsBkpt1 ==
  ( /\ pc \in {"bkpt", "args"}
    /\ k + Ext(k) <= left_scaffold.len
    /\ k + Ext(k) <= right_scaffold.len ) =>
      /\ bkpt[3].seq = rc(bkpt[2].seq)
      /\ bkpt[4].seq = rc(bkpt[1].seq)

\* a breakpoint file of probes of 51 bases, 60 bases off the gap, of a
\* reverse left and a forward right scaffold
C26_Witness ==
  /\ pc = "bkpt"
  /\ k = 51
  /\ extension = 60
  /\ left_scaffold = [orient |-> "-", len |-> 120]
  /\ right_scaffold = [orient |-> "+", len |-> 120]
  /\ Len(bkpt[1].seq) = 51
  /\ bkpt[3].seq = rc(bkpt[2].seq)
  /\ bkpt[4].seq = rc(bkpt[1].seq)

\* C29: the attempts of a gap follow the iteration order of the grid (the
\* position of k in the k list, then the position of a in the abundance
\* list), no pair is attempted twice, and the breakpoint file of a k is
\* written before the first attempt with that k.
C29_AttemptsInGridOrder ==
  /\ [](\A m, n \in DOMAIN attempts :
          m < n => GridIndex(attempts[m]) < GridIndex(attempts[n]))
  /\ [][ attempts' # attempts =>
           /\ attempts' = Append(attempts, << k, abundance_threshold[ai] >>)
           /\ k \in bkpt_k ]_vars

\* a search without --force that attempted the whole grid, in its order, and
\* returned
C29_Witness ==
  /\ ~force
  /\ pc = "return"
  /\ attempts = Grid
  /\ bkpt_k = { kmer[i] : i \in DOMAIN kmer }

====
